---- MODULE Spec2Model ----
(***************************************************************************)
(* Model of api/generate.js: the /api/generate serverless handler and its  *)
(* retrying fetch wrapper (fetchWithRetry).                                *)
(*                                                                         *)
(* One invocation of handler(req, res) is modelled.  The handler runs      *)
(* synchronously between its await points, so there is one action per      *)
(* stretch of code between two awaits:                                     *)
(*   HandlerStart   lines 52-114 up to the first fetch (line 23)           *)
(*   FetchComplete  the awaited fetch settles (lines 23-42)                *)
(*   TextComplete   the awaited response.text() settles (lines 30-42)      *)
(*   TimerFire      the backoff timer fires, loop continues (41, 21-23)    *)
(*   JsonComplete   the awaited response.json() settles (lines 116-140)    *)
(***************************************************************************)
EXTENDS Integers, Sequences, FiniteSets, TLC

VARIABLES
    apiKey,       \* API_KEY, read once when the module is loaded
    req,          \* the inbound request: method and body
    maxRetries,   \* fetchWithRetry's maxRetries parameter
    pc,           \* where the invocation is suspended
    requestBody,  \* the handler's local requestBody
    apiUrl,       \* the handler's local apiUrl
    options,      \* the fetch options built by the handler
    attempt,      \* fetchWithRetry's loop variable
    response,     \* the Response object of the current loop iteration
    fetchCalls,   \* the calls of fetch made so far, in order
    outcomes,     \* how each of those calls settled, in order
    waits,        \* how many backoff timers have been set so far
    delay,        \* the delay of the latest of those timers, in milliseconds
    responses,    \* what the handler has sent through res, in order
    peer          \* a second invocation running in the same process, if any

\* the state of the invocation that is followed: the process-wide API_KEY
\* and the arguments and locals of its handler and fetchWithRetry calls
own == <<apiKey, req, maxRetries, pc, requestBody, apiUrl, options, attempt,
         response, fetchCalls, outcomes, waits, delay, responses>>

vars == <<own, peer>>

(***************************************************************************)
(* Bounds of the exploration.                                              *)
(***************************************************************************)
\* longest "parts" array of an upstream candidate that is explored
MaxParts == 2
\* longest "parts" array explored together with a safety rating
MaxRatedParts == 1
\* largest value of fetchWithRetry's maxRetries parameter that is explored
MaxRetriesExplored == 5

\* the retry cap of both invocations in the two-invocation specification
PairRetries == 3

(***************************************************************************)
(* JavaScript values.  Every value is a record tagged with its type.       *)
(* A string that is only ever handed to a JSON decoder is a "text": it is  *)
(* described by its length, by whether it is well-formed JSON, and by the  *)
(* document it denotes.                                                    *)
(***************************************************************************)
Undefined == [t |-> "undefined"]
Null == [t |-> "null"]
Str(s) == [t |-> "string", s |-> s]
Num(n) == [t |-> "number", n |-> n]
Obj(f) == [t |-> "object", f |-> f]
Arr(a) == [t |-> "array", a |-> a]
Text(len, wf, doc) == [t |-> "text", len |-> len, wf |-> wf, doc |-> doc]
\* a local variable that has not been assigned yet
Unset == [t |-> "unset"]

\* typeof v === 'string'
IsString(v) == v.t \in {"string", "text"}

\* v.length of a string
StrLength(v) == IF v.t = "text" THEN v.len ELSE IF v.s = "" THEN 0 ELSE 1

\* v is null or undefined: reading a property of it throws a TypeError
Nullish(v) == v.t \in {"undefined", "null"}

\* ToBoolean(v)
Truthy(v) ==
    CASE v.t \in {"undefined", "null"} -> FALSE
      [] v.t = "string" -> v.s # ""
      [] v.t = "text" -> v.len > 0
      [] v.t = "number" -> v.n # 0
      [] OTHER -> TRUE

\* v.k for a v that is not nullish
Get(v, k) ==
    IF v.t = "object" /\ k \in DOMAIN v.f THEN v.f[k] ELSE Undefined

\* v?.k
OptGet(v, k) == IF Nullish(v) THEN Undefined ELSE Get(v, k)

\* v?.[0]
OptFirst(v) ==
    IF Nullish(v) THEN Undefined
    ELSE IF v.t = "array" /\ Len(v.a) >= 1 THEN v.a[1] ELSE Undefined

\* JSON.parse(text) throws a SyntaxError
JSONParseThrows(text) == ~text.wf

\* JSON.parse(text) when it does not throw
JSONParse(text) == text.doc

\* JSON.stringify(v)
JSONStringify(v) == Text(1, TRUE, v)

(***************************************************************************)
(* Process configuration and program constants.                            *)
(***************************************************************************)
API_URL_BASE == "https://generativelanguage.googleapis.com/v1beta/models"

\* default value of fetchWithRetry's maxRetries parameter
DefaultMaxRetries == 5

\* values of process.env.GEMINI_API_KEY || ""
ApiKeys == {"", "KEY"}

(***************************************************************************)
(* Inbound requests.                                                       *)
(***************************************************************************)
Methods == {"POST", "GET"}

PromptTexts == {Undefined, Str(""), Str("prompt")}
ModelNames == {Undefined, Str(""), Str("gemini")}
ImageDatas == {Undefined, Str(""), Str("AAAA")}
MimeTypes == {Undefined, Str(""), Str("image/png")}
Images ==
    {Undefined, Null, Str("img")}
        \cup {Obj([data |-> d, mimeType |-> m]) : d \in ImageDatas, m \in MimeTypes}

BodyObjects ==
    {Obj([promptText |-> p, image |-> i, model |-> m]) :
        p \in PromptTexts, i \in Images, m \in ModelNames}

\* req.body as the host surfaces it: absent, null, a string, or a parsed object
Bodies ==
    {Undefined, Null, Text(0, FALSE, Undefined), Text(1, FALSE, Undefined),
     Text(1, TRUE, Null), Text(1, TRUE, Num(5))}
        \cup {Text(1, TRUE, o) : o \in BodyObjects}
        \cup BodyObjects

Requests == [method : Methods, body : Bodies]

(***************************************************************************)
(* Response bodies of the handler.                                         *)
(***************************************************************************)
MsgNoKey == "Server misconfigured: GEMINI_API_KEY is not set."
MsgPostOnly == "Only POST requests are supported."
MsgMissing == "Missing required parameters (promptText, image.data, image.mimeType, or model)."
MsgBlocked == "Content may have been blocked by safety policy, please change the scenario."
MsgGeneric == "AI image generation failed, please check the scenario or retry."
MsgInternal == "Internal server error: "

\* res.status(s).json({ error: msg })
ErrorResponse(s, msg) == [status |-> s, json |-> [error |-> msg]]

\* variant: the catch block forgets to set the status
CatchResponse_NoStatus(message) == ErrorResponse(200, MsgInternal \o message)

\* the handler's catch block (lines 137-140) for an error with this message
CatchResponse(message) == ErrorResponse(500, MsgInternal \o message)

\* messages of the TypeErrors the runtime raises
MsgDestructure == "Cannot destructure property 'promptText' of 'requestBody'"
MsgReadProperty == "Cannot read properties of null or undefined"
MsgJsonSyntax == "Unexpected token in JSON"
MsgFetchFailed == "fetch failed"
MsgBodyStream == "body stream failed"

(***************************************************************************)
(* The upstream service: how a call of fetch can settle.                   *)
(***************************************************************************)
Statuses == {200, 400, 429, 500}

\* response.ok
ResponseOk(status) == status >= 200 /\ status <= 299

\* line 26: response.status === 429 || response.status >= 500
Retriable(status) == status = 429 \/ status >= 500

TextPart == Obj([text |-> Str("caption")])
InlinePart(d) == Obj([inlineData |-> Obj([mimeType |-> Str("image/png"), data |-> d])])
Parts == {TextPart, Null, InlinePart(Str("")), InlinePart(Str("IMGA")), InlinePart(Str("IMGB"))}
PartsArrays == UNION {[1..n -> Parts] : n \in 0..MaxParts}

SafetyRatings ==
    {Undefined, Arr(<<Obj([probability |-> Str("HIGH")])>>),
     Arr(<<Obj([probability |-> Str("LOW")])>>)}

Candidates(c) == Obj([candidates |-> Arr(<<c>>)])

\* the documents a 2xx body can denote
ResultDocs ==
    {Null, Num(5), Obj([promptFeedback |-> Str("BLOCKED")]),
     Obj([candidates |-> Arr(<<>>)])}
        \cup {Candidates(Obj([safetyRatings |-> s])) : s \in SafetyRatings}
        \cup {Candidates(Obj([content |-> Obj([role |-> Str("model")]),
                              safetyRatings |-> s])) : s \in SafetyRatings}
        \cup {Candidates(Obj([content |-> Obj([parts |-> Arr(ps[1])]),
                              safetyRatings |-> ps[2]])) :
                ps \in {x \in PartsArrays \X SafetyRatings :
                            x[2] = Undefined \/ Len(x[1]) <= MaxRatedParts}}

OkBodies == {Text(1, FALSE, Undefined)} \cup {Text(1, TRUE, d) : d \in ResultDocs}
ErrBodies == {Str(""), Str("INVALID_ARGUMENT")}

BodiesOf(status) ==
    IF ResponseOk(status) THEN OkBodies
    ELSE IF Retriable(status) THEN {Str("")}
    ELSE ErrBodies

\* a call of fetch either rejects or resolves with a Response
Outcomes ==
    {[kind |-> "reject", status |-> 0, body |-> Undefined]}
        \cup {[kind |-> "response", status |-> st, body |-> b] :
                st \in Statuses, b \in UNION {BodiesOf(x) : x \in Statuses}}

NoResponse == [status |-> 0, body |-> Unset]

\* Math.random() * 1000, in whole milliseconds: the two ends of its range
Jitters == {0, 999}

(***************************************************************************)
(* fetchWithRetry.                                                         *)
(***************************************************************************)
RECURSIVE Pow2(_)
Pow2(n) == IF n = 0 THEN 1 ELSE 2 * Pow2(n - 1)

\* variant: the base delay does not grow with the attempt
Delay_Flat(a, jitter) == 1000 + jitter

\* variant: the exponent is one too high
Delay_Doubled(a, jitter) == Pow2(a + 1) * 1000 + jitter

\* line 40: Math.pow(2, attempt) * 1000 + Math.random() * 1000
Delay(a, jitter) == Pow2(a) * 1000 + jitter

\* line 27
MsgRetriable(status) == "Retriable HTTP error! status: " \o ToString(status)

\* line 31
MsgFailed(status, errorBody) ==
    "API Request failed with status " \o ToString(status) \o ": " \o errorBody

\* variant: the handler returns without sending anything
Respond_Silent(r) ==
    /\ responses' = responses
    /\ pc' = "done"

\* res.status(...).json(...): the handler has answered
Respond(r) ==
    /\ responses' = Append(responses, r)
    /\ pc' = "done"

\* variant: a retry marks its URL as a retry
EnterLoop_MarksRetry(a, url, opts) ==
    IF a < maxRetries
    THEN /\ fetchCalls' = Append(fetchCalls,
                [url |-> IF a = 0 THEN url ELSE Append(url, "&retry"),
                 options |-> opts])
         /\ pc' = "fetch"
         /\ UNCHANGED responses
    ELSE /\ Respond(CatchResponse(MsgReadProperty))
         /\ UNCHANGED fetchCalls

\* line 21's loop test and line 23: start the next attempt, or leave the loop
\* (fetchWithRetry then returns undefined and line 116 throws a TypeError)
EnterLoop(a, url, opts) ==
    IF a < maxRetries
    THEN /\ fetchCalls' = Append(fetchCalls, [url |-> url, options |-> opts])
         /\ pc' = "fetch"
         /\ UNCHANGED responses
    ELSE /\ Respond(CatchResponse(MsgReadProperty))
         /\ UNCHANGED fetchCalls

\* variant: the catch block never rethrows
CatchInLoop_NeverRethrows(message) ==
    /\ response' = NoResponse
    /\ \E jitter \in Jitters : delay' = Delay(attempt, jitter)
    /\ waits' = waits + 1
    /\ pc' = "wait"
    /\ UNCHANGED responses

\* variant: the last attempt is recognised one iteration too late
CatchInLoop_OffByOne(message) ==
    /\ response' = NoResponse
    /\ IF attempt = maxRetries
       THEN /\ Respond(CatchResponse(message))
            /\ UNCHANGED <<waits, delay>>
       ELSE /\ \E jitter \in Jitters : delay' = Delay(attempt, jitter)
            /\ waits' = waits + 1
            /\ pc' = "wait"
            /\ UNCHANGED responses

\* lines 34-42: the catch block of the loop body, for an error with this
\* message; on the last attempt the error is rethrown into the handler's catch
CatchInLoop(message) ==
    /\ response' = NoResponse
    /\ IF attempt = maxRetries - 1
       THEN /\ Respond(CatchResponse(message))
            /\ UNCHANGED <<waits, delay>>
       ELSE /\ \E jitter \in Jitters : delay' = Delay(attempt, jitter)
            /\ waits' = waits + 1
            /\ pc' = "wait"
            /\ UNCHANGED responses

(***************************************************************************)
(* handler.                                                                *)
(***************************************************************************)
EmptyObject == Obj([k \in {} |-> Undefined])

\* variant: the credential is never checked
KeyMissing_Never(key) == FALSE

\* line 54: !API_KEY
KeyMissing(key) == key = ""

\* variant: every method is let through
MethodAllowed_Any(method) == TRUE

\* line 59, negated: req.method === 'POST'
MethodAllowed(method) == method = "POST"

\* lines 64-76: the defensive parse of req.body
ParseBody(body) ==
    IF IsString(body) /\ StrLength(body) > 0
    THEN IF JSONParseThrows(body) THEN EmptyObject ELSE JSONParse(body)
    ELSE body

\* line 81, for a body that can be destructured
MissingFields(rb) ==
    LET promptText == Get(rb, "promptText")
        image == Get(rb, "image")
        model == Get(rb, "model")
    IN  \/ ~Truthy(promptText)
        \/ ~Truthy(image)
        \/ ~Truthy(Get(image, "data"))
        \/ ~Truthy(Get(image, "mimeType"))
        \/ ~Truthy(model)

\* line 86
BuildUrl(model, key) ==
    <<API_URL_BASE, "/", model, ":generateContent?key=", key>>

\* lines 89-108
BuildPayload(rb) ==
    Obj([contents |-> Arr(<<Obj([role |-> Str("user"),
                                 parts |-> Arr(<<
                                    Obj([text |-> Get(rb, "promptText")]),
                                    Obj([inlineData |-> Obj([
                                        mimeType |-> Get(Get(rb, "image"), "mimeType"),
                                        data |-> Get(Get(rb, "image"), "data")])])>>)])>>),
         generationConfig |-> Obj([responseModalities |->
                                    Arr(<<Str("TEXT"), Str("IMAGE")>>)])])

\* lines 110-114: the options handed to fetchWithRetry
BuildOptions(rb) ==
    [method |-> "POST", contentType |-> "application/json",
     body |-> JSONStringify(BuildPayload(rb))]

\* parts.find(p => p.inlineData) throws: parts has no find, or the callback
\* reads a property of a null element before a match is found
FindThrows(parts) ==
    \/ parts.t # "array"
    \/ \E i \in 1..Len(parts.a) :
          /\ Nullish(parts.a[i])
          /\ \A j \in 1..(i - 1) : ~Truthy(Get(parts.a[j], "inlineData"))

\* variant: the last matching part is taken
Find_Last(parts) ==
    LET hits == {i \in 1..Len(parts.a) : Truthy(Get(parts.a[i], "inlineData"))}
    IN  IF hits = {} THEN Undefined
        ELSE parts.a[CHOOSE i \in hits : \A j \in hits : i >= j]

\* parts.find(p => p.inlineData) when it does not throw
Find(parts) ==
    LET hits == {i \in 1..Len(parts.a) : Truthy(Get(parts.a[i], "inlineData"))}
    IN  IF hits = {} THEN Undefined
        ELSE parts.a[CHOOSE i \in hits : \A j \in hits : i <= j]

\* line 119, left of .find: result?.candidates?.[0]?.content?.parts
PartsOf(result) ==
    OptGet(OptGet(OptFirst(OptGet(result, "candidates")), "content"), "parts")

\* line 119 throws
ExtractThrows(result) ==
    ~Nullish(PartsOf(result)) /\ FindThrows(PartsOf(result))

\* line 119 when it does not throw
ExtractBase64(result) ==
    LET parts == PartsOf(result)
        found == IF Nullish(parts) THEN Undefined ELSE Find(parts)
    IN  OptGet(OptGet(found, "inlineData"), "data")

\* lines 127-129, for a result that is not nullish
FailureMessage(result) ==
    IF OptGet(OptFirst(OptGet(OptFirst(Get(result, "candidates")),
                              "safetyRatings")), "probability") = Str("HIGH")
    THEN MsgBlocked
    ELSE MsgGeneric

\* lines 116-140 once the body of the 2xx response has been read
Answer(body) ==
    IF JSONParseThrows(body) THEN CatchResponse(MsgJsonSyntax)
    ELSE LET result == JSONParse(body)
         IN  IF ExtractThrows(result) THEN CatchResponse(MsgReadProperty)
             ELSE IF Truthy(ExtractBase64(result))
             THEN [status |-> 200, json |-> [base64Data |-> ExtractBase64(result)]]
             ELSE IF Nullish(result) THEN CatchResponse(MsgReadProperty)
             ELSE [status |-> 500,
                   json |-> [error |-> FailureMessage(result), details |-> result]]

(***************************************************************************)
(* The invocation as a state machine.                                      *)
(***************************************************************************)
\* no second invocation is running
NoPeer == [pc |-> "absent"]

Init ==
    /\ apiKey \in ApiKeys
    /\ req \in Requests
    /\ maxRetries = DefaultMaxRetries
    /\ pc = "start"
    /\ requestBody = Unset
    /\ apiUrl = <<>>
    /\ options = Unset
    /\ attempt = 0
    /\ response = NoResponse
    /\ fetchCalls = <<>>
    /\ outcomes = <<>>
    /\ waits = 0
    /\ delay = 0
    /\ responses = <<>>
    /\ peer = NoPeer

\* lines 52-114 and 20-23: from the entry of the handler to the first fetch
HandlerStart ==
    /\ pc = "start"
    /\ IF KeyMissing(apiKey)
       THEN /\ Respond(ErrorResponse(500, MsgNoKey))
            /\ UNCHANGED <<requestBody, apiUrl, options, fetchCalls>>
       ELSE IF ~MethodAllowed(req.method)
       THEN /\ Respond(ErrorResponse(405, MsgPostOnly))
            /\ UNCHANGED <<requestBody, apiUrl, options, fetchCalls>>
       ELSE LET rb == ParseBody(req.body)
            IN  /\ requestBody' = rb
                /\ IF Nullish(rb)
                   THEN /\ Respond(CatchResponse(MsgDestructure))
                        /\ UNCHANGED <<apiUrl, options, fetchCalls>>
                   ELSE IF MissingFields(rb)
                   THEN /\ Respond(ErrorResponse(400, MsgMissing))
                        /\ UNCHANGED <<apiUrl, options, fetchCalls>>
                   ELSE /\ apiUrl' = BuildUrl(Get(rb, "model"), apiKey)
                        /\ options' = BuildOptions(rb)
                        /\ EnterLoop(0, apiUrl', options')
    /\ UNCHANGED <<apiKey, req, maxRetries, attempt, response, outcomes, waits, delay>>
    /\ UNCHANGED peer

\* variant: the call of fetch is outside the try block, so a rejection is not
\* retried but goes straight to the handler's catch
FetchComplete_RejectEscapes ==
    /\ pc = "fetch"
    /\ \E o \in Outcomes :
          /\ o.kind = "response" => o.body \in BodiesOf(o.status)
          /\ outcomes' = Append(outcomes, [kind |-> o.kind, status |-> o.status])
          /\ IF o.kind = "reject"
             THEN /\ response' = NoResponse
                  /\ Respond(CatchResponse(MsgFetchFailed))
                  /\ UNCHANGED <<waits, delay>>
             ELSE IF ResponseOk(o.status)
             THEN /\ response' = [status |-> o.status, body |-> o.body]
                  /\ pc' = "json"
                  /\ UNCHANGED <<waits, delay, responses>>
             ELSE IF Retriable(o.status)
             THEN CatchInLoop(MsgRetriable(o.status))
             ELSE /\ response' = [status |-> o.status, body |-> o.body]
                  /\ pc' = "text"
                  /\ UNCHANGED <<waits, delay, responses>>
    /\ UNCHANGED <<apiKey, req, maxRetries, requestBody, apiUrl, options,
                   attempt, fetchCalls>>
    /\ UNCHANGED peer

\* lines 23-42: the awaited fetch settles
FetchComplete ==
    /\ pc = "fetch"
    /\ \E o \in Outcomes :
          /\ o.kind = "response" => o.body \in BodiesOf(o.status)
          /\ outcomes' = Append(outcomes, [kind |-> o.kind, status |-> o.status])
          /\ IF o.kind = "reject"
             THEN CatchInLoop(MsgFetchFailed)
             ELSE IF ResponseOk(o.status)
             THEN /\ response' = [status |-> o.status, body |-> o.body]
                  /\ pc' = "json"
                  /\ UNCHANGED <<waits, delay, responses>>
             ELSE IF Retriable(o.status)
             THEN CatchInLoop(MsgRetriable(o.status))
             ELSE /\ response' = [status |-> o.status, body |-> o.body]
                  /\ pc' = "text"
                  /\ UNCHANGED <<waits, delay, responses>>
    /\ UNCHANGED <<apiKey, req, maxRetries, requestBody, apiUrl, options,
                   attempt, fetchCalls>>
    /\ UNCHANGED peer

\* lines 30-42: the awaited response.text() settles, with the body or by
\* rejecting, and the error thrown lands in the loop's catch block
TextComplete ==
    /\ pc = "text"
    /\ \E read \in BOOLEAN :
          CatchInLoop(IF read THEN MsgFailed(response.status, response.body.s)
                      ELSE MsgBodyStream)
    /\ UNCHANGED <<apiKey, req, maxRetries, requestBody, apiUrl, options,
                   attempt, fetchCalls, outcomes>>
    /\ UNCHANGED peer

\* variant: the loop variable is incremented twice per round
TimerFire_Twice ==
    /\ pc = "wait"
    /\ attempt' = attempt + 2
    /\ EnterLoop(attempt + 2, apiUrl, options)
    /\ UNCHANGED <<apiKey, req, maxRetries, requestBody, apiUrl, options,
                   response, outcomes, waits, delay>>
    /\ UNCHANGED peer

\* variant: the loop variable is never incremented
TimerFire_NoIncrement ==
    /\ pc = "wait"
    /\ attempt' = attempt
    /\ EnterLoop(attempt, apiUrl, options)
    /\ UNCHANGED <<apiKey, req, maxRetries, requestBody, apiUrl, options,
                   response, outcomes, waits, delay>>
    /\ UNCHANGED peer

\* lines 41, 21-23: the backoff timer fires and the loop goes round
TimerFire ==
    /\ pc = "wait"
    /\ attempt' = attempt + 1
    /\ EnterLoop(attempt + 1, apiUrl, options)
    /\ UNCHANGED <<apiKey, req, maxRetries, requestBody, apiUrl, options,
                   response, outcomes, waits, delay>>
    /\ UNCHANGED peer

\* lines 116-140: the awaited response.json() settles and the handler answers
JsonComplete ==
    /\ pc = "json"
    /\ Respond(Answer(response.body))
    /\ UNCHANGED <<apiKey, req, maxRetries, requestBody, apiUrl, options,
                   attempt, response, fetchCalls, outcomes, waits, delay>>
    /\ UNCHANGED peer

Next ==
    \/ HandlerStart
    \/ FetchComplete
    \/ TextComplete
    \/ TimerFire
    \/ JsonComplete

Spec == Init /\ [][Next]_vars

\* fetchWithRetry called with any maxRetries >= 1 instead of the default
InitRetries ==
    /\ apiKey \in ApiKeys
    /\ req \in Requests
    /\ maxRetries \in 1..MaxRetriesExplored
    /\ pc = "start"
    /\ requestBody = Unset
    /\ apiUrl = <<>>
    /\ options = Unset
    /\ attempt = 0
    /\ response = NoResponse
    /\ fetchCalls = <<>>
    /\ outcomes = <<>>
    /\ waits = 0
    /\ delay = 0
    /\ responses = <<>>
    /\ peer = NoPeer

SpecRetries == InitRetries /\ [][Next]_vars

\* the runtime runs the handler, every pending fetch, body read and timer
\* eventually settles
Fairness ==
    /\ WF_vars(HandlerStart)
    /\ WF_vars(FetchComplete)
    /\ WF_vars(TextComplete)
    /\ WF_vars(TimerFire)
    /\ WF_vars(JsonComplete)

LiveSpec == Init /\ [][Next]_vars /\ Fairness

(***************************************************************************)
(* Two invocations in one process.  The second runs the same handler and   *)
(* the same fetchWithRetry on its own arguments and locals, kept in the     *)
(* record peer; API_KEY is the only binding the two have in common.         *)
(***************************************************************************)
PairValidBody ==
    Obj([promptText |-> Str("prompt"),
         image |-> Obj([data |-> Str("AAAA"), mimeType |-> Str("image/png")]),
         model |-> Str("gemini")])

PairOtherBody ==
    Obj([promptText |-> Str("other prompt"),
         image |-> Obj([data |-> Str("BBBB"), mimeType |-> Str("image/jpeg")]),
         model |-> Str("gemini-pro")])

\* requests of the followed invocation and of the second one
PairRequests ==
    {[method |-> "POST", body |-> PairValidBody],
     [method |-> "POST", body |-> Null],
     [method |-> "GET", body |-> PairValidBody]}

PeerRequests ==
    {[method |-> "POST", body |-> PairValidBody],
     [method |-> "POST", body |-> PairOtherBody],
     [method |-> "GET", body |-> PairOtherBody]}

PairOkBodies ==
    {Text(1, TRUE, Candidates(Obj([content |-> Obj([parts |-> Arr(<<InlinePart(Str("IMGA"))>>)]),
                                   safetyRatings |-> Undefined]))),
     Text(1, TRUE, Candidates(Obj([content |-> Obj([parts |-> Arr(<<InlinePart(Str("IMGB"))>>)]),
                                   safetyRatings |-> Undefined]))),
     Text(1, TRUE, Null)}

\* how a call of fetch settles in the two-invocation specification
PairOutcomes ==
    {[kind |-> "reject", status |-> 0, body |-> Undefined],
     [kind |-> "response", status |-> 400, body |-> Str("INVALID_ARGUMENT")],
     [kind |-> "response", status |-> 500, body |-> Str("")]}
        \cup {[kind |-> "response", status |-> 200, body |-> b] : b \in PairOkBodies}

PairJitters == {0}

\* the followed invocation's inputs are drawn from the sets above
PairScope ==
    /\ \A i \in 1..Len(outcomes) :
          \E o \in PairOutcomes : o.kind = outcomes[i].kind /\ o.status = outcomes[i].status
    /\ response # NoResponse =>
          \E o \in PairOutcomes : o.status = response.status /\ o.body = response.body
    /\ delay % 1000 \in PairJitters

\* the locals of an invocation at the entry of the handler
PeerEntry(r) ==
    [req |-> r, maxRetries |-> PairRetries, pc |-> "start", requestBody |-> Unset,
     apiUrl |-> <<>>, options |-> Unset, attempt |-> 0, response |-> NoResponse,
     fetchCalls |-> <<>>, outcomes |-> <<>>, waits |-> 0, delay |-> 0,
     responses |-> <<>>]

\* res.status(...).json(...) on the second invocation's res
PeerRespond(p, r) == [p EXCEPT !.responses = Append(@, r), !.pc = "done"]

\* line 21's loop test and line 23, on the second invocation's locals
PeerEnterLoop(p, a) ==
    IF a < p.maxRetries
    THEN [p EXCEPT !.attempt = a,
                   !.fetchCalls = Append(@, [url |-> p.apiUrl, options |-> p.options]),
                   !.pc = "fetch"]
    ELSE PeerRespond([p EXCEPT !.attempt = a], CatchResponse(MsgReadProperty))

\* lines 34-42 on the second invocation's locals
PeerCatchInLoop(p, message, jitter) ==
    LET q == [p EXCEPT !.response = NoResponse]
    IN  IF p.attempt = p.maxRetries - 1
        THEN PeerRespond(q, CatchResponse(message))
        ELSE [q EXCEPT !.delay = Delay(p.attempt, jitter),
                       !.waits = @ + 1,
                       !.pc = "wait"]

\* lines 52-114 and 20-23 in the second invocation
PeerHandlerStart ==
    /\ peer.pc = "start"
    /\ peer' =
          IF KeyMissing(apiKey)
          THEN PeerRespond(peer, ErrorResponse(500, MsgNoKey))
          ELSE IF ~MethodAllowed(peer.req.method)
          THEN PeerRespond(peer, ErrorResponse(405, MsgPostOnly))
          ELSE LET rb == ParseBody(peer.req.body)
                   p == [peer EXCEPT !.requestBody = rb]
               IN  IF Nullish(rb)
                   THEN PeerRespond(p, CatchResponse(MsgDestructure))
                   ELSE IF MissingFields(rb)
                   THEN PeerRespond(p, ErrorResponse(400, MsgMissing))
                   ELSE PeerEnterLoop([p EXCEPT !.apiUrl = BuildUrl(Get(rb, "model"), apiKey),
                                                !.options = BuildOptions(rb)], 0)
    /\ UNCHANGED own

\* lines 23-42 in the second invocation
PeerFetchComplete ==
    /\ peer.pc = "fetch"
    /\ \E o \in PairOutcomes, jitter \in PairJitters :
          peer' =
             LET p == [peer EXCEPT !.outcomes =
                            Append(@, [kind |-> o.kind, status |-> o.status])]
                 r == [status |-> o.status, body |-> o.body]
             IN  IF o.kind = "reject"
                 THEN PeerCatchInLoop(p, MsgFetchFailed, jitter)
                 ELSE IF ResponseOk(o.status)
                 THEN [p EXCEPT !.response = r, !.pc = "json"]
                 ELSE IF Retriable(o.status)
                 THEN PeerCatchInLoop(p, MsgRetriable(o.status), jitter)
                 ELSE [p EXCEPT !.response = r, !.pc = "text"]
    /\ UNCHANGED own

\* lines 30-42 in the second invocation
PeerTextComplete ==
    /\ peer.pc = "text"
    /\ \E read \in BOOLEAN, jitter \in PairJitters :
          peer' = PeerCatchInLoop(peer,
                      IF read THEN MsgFailed(peer.response.status, peer.response.body.s)
                      ELSE MsgBodyStream, jitter)
    /\ UNCHANGED own

\* variant: the loop variable is a binding of the module, shared by all
\* invocations, instead of a local of the call
PeerTimerFire_SharedCounter ==
    /\ peer.pc = "wait"
    /\ attempt' = attempt + 1
    /\ peer' = PeerEnterLoop(peer, attempt + 1)
    /\ UNCHANGED <<apiKey, req, maxRetries, pc, requestBody, apiUrl, options,
                   response, fetchCalls, outcomes, waits, delay, responses>>

\* lines 41, 21-23 in the second invocation
PeerTimerFire ==
    /\ peer.pc = "wait"
    /\ peer' = PeerEnterLoop(peer, peer.attempt + 1)
    /\ UNCHANGED own

\* lines 116-140 in the second invocation
PeerJsonComplete ==
    /\ peer.pc = "json"
    /\ peer' = PeerRespond(peer, Answer(peer.response.body))
    /\ UNCHANGED own

\* both invocations have entered the handler and neither has run yet
InitPair ==
    /\ apiKey \in ApiKeys
    /\ req \in PairRequests
    /\ maxRetries = PairRetries
    /\ pc = "start"
    /\ requestBody = Unset
    /\ apiUrl = <<>>
    /\ options = Unset
    /\ attempt = 0
    /\ response = NoResponse
    /\ fetchCalls = <<>>
    /\ outcomes = <<>>
    /\ waits = 0
    /\ delay = 0
    /\ responses = <<>>
    /\ peer \in {PeerEntry(r) : r \in PeerRequests}

\* the followed invocation's stretches, on inputs of the sets above
PairHandlerStart == HandlerStart /\ PairScope'

PairFetchComplete == FetchComplete /\ PairScope'

PairTextComplete == TextComplete /\ PairScope'

PairTimerFire == TimerFire /\ PairScope'

PairJsonComplete == JsonComplete /\ PairScope'

\* the event loop runs one stretch of one invocation at a time, in any order
NextPair ==
    \/ PairHandlerStart
    \/ PairFetchComplete
    \/ PairTextComplete
    \/ PairTimerFire
    \/ PairJsonComplete
    \/ PeerHandlerStart
    \/ PeerFetchComplete
    \/ PeerTextComplete
    \/ PeerTimerFire
    \/ PeerJsonComplete

SpecPair == InitPair /\ [][NextPair]_vars

TypeOK ==
    /\ pc \in {"start", "fetch", "text", "wait", "json", "done"}
    /\ Len(responses) <= 1

(***************************************************************************)
(* Vocabulary of the properties.                                           *)
(***************************************************************************)
Calls == Len(fetchCalls)

Answered == pc = "done"

\* the outcome is a Response with a 2xx status
IsSuccess(o) == o.kind = "response" /\ o.status \in 200..299

\* the outcome is a Response with status 429 or 5xx
IsRetriableStatus(o) == o.kind = "response" /\ (o.status = 429 \/ o.status \in 500..599)

\* the outcome is a transport failure or a retriable status
IsTransient(o) == o.kind = "reject" \/ IsRetriableStatus(o)

\* the outcome is a Response with any other status
IsFatal(o) == o.kind = "response" /\ ~IsSuccess(o) /\ ~IsRetriableStatus(o)

\* the parts of the first candidate of an upstream document, <<>> if none
DocParts(doc) ==
    IF doc.t = "object" /\ "candidates" \in DOMAIN doc.f
        /\ doc.f.candidates.t = "array" /\ Len(doc.f.candidates.a) >= 1
        /\ doc.f.candidates.a[1].t = "object"
        /\ "content" \in DOMAIN doc.f.candidates.a[1].f
        /\ doc.f.candidates.a[1].f.content.t = "object"
        /\ "parts" \in DOMAIN doc.f.candidates.a[1].f.content.f
        /\ doc.f.candidates.a[1].f.content.f.parts.t = "array"
    THEN doc.f.candidates.a[1].f.content.f.parts.a
    ELSE <<>>

\* the part carries an inlineData object
HasInline(part) == part.t = "object" /\ "inlineData" \in DOMAIN part.f

\* the part carries inline data that is a non-empty string
HasData(part) == HasInline(part) /\ part.f.inlineData.f.data.s # ""

\* the smallest element of a non-empty set of numbers
Least(S) == CHOOSE i \in S : \A j \in S : i <= j

\* positions of the parts with inlineData, and of those with non-empty data
InlineAt(doc) == {i \in 1..Len(DocParts(doc)) : HasInline(DocParts(doc)[i])}
DataAt(doc) == {i \in 1..Len(DocParts(doc)) : HasData(DocParts(doc)[i])}

\* the first part with inlineData exists, has non-empty data and follows no
\* null part
FirstInlineUsable(doc) ==
    /\ InlineAt(doc) # {}
    /\ Least(InlineAt(doc)) \in DataAt(doc)
    /\ \A j \in 1..(Least(InlineAt(doc)) - 1) : DocParts(doc)[j] # Null

\* the data of the part at position i
DataOf(doc, i) == DocParts(doc)[i].f.inlineData.f.data

\* the first candidate's first safety rating reports probability "HIGH"
RatedHigh(doc) ==
    /\ doc.t = "object" /\ "candidates" \in DOMAIN doc.f
    /\ doc.f.candidates.t = "array" /\ Len(doc.f.candidates.a) >= 1
    /\ doc.f.candidates.a[1].t = "object"
    /\ "safetyRatings" \in DOMAIN doc.f.candidates.a[1].f
    /\ doc.f.candidates.a[1].f.safetyRatings
          = Arr(<<Obj([probability |-> Str("HIGH")])>>)

\* the last fetch resolved with a 2xx response whose body is decodable
DecodedSuccess ==
    /\ outcomes # <<>>
    /\ IsSuccess(outcomes[Len(outcomes)])
    /\ response.body.t = "text"
    /\ response.body.wf

\* the message the loop attaches to a transient outcome
TransientMessage(o) ==
    IF o.kind = "reject" THEN MsgFetchFailed
    ELSE "Retriable HTTP error! status: " \o ToString(o.status)

(***************************************************************************)
(* C1.  A fatal status (non-2xx, not 429, not 5xx) at attempt i aborts the *)
(* invocation at once: i+1 attempts in total, no backoff wait and no       *)
(* further attempt after it, and the handler's answer is the error that    *)
(* carries the status and the response body.  The code does not do this:   *)
(* the error thrown at line 31 is caught by the loop's own catch block.    *)
(***************************************************************************)
C1_FatalAbortsImmediately ==
    \A i \in 1..Len(outcomes) :
        IsFatal(outcomes[i]) =>
            /\ i = Len(outcomes)
            /\ Calls = i
            /\ pc # "wait"
            /\ waits = i - 1
            /\ Answered =>
                  responses \in
                      {<<CatchResponse(MsgFailed(outcomes[i].status, b.s))>> :
                          b \in ErrBodies}

(***************************************************************************)
(* C2.  With the credential configured and method POST, every raw body in  *)
(* which promptText, image.data, image.mimeType or model is missing or     *)
(* falsy is answered 400 with the missing-fields message and no upstream   *)
(* call; absent, null and undecodable bodies included.  The code answers   *)
(* 500 for an absent or null body and for a string that decodes to null.   *)
(***************************************************************************)
\* what the raw body denotes: a string stands for what it decodes to
Denoted(body) ==
    IF body.t = "text" THEN (IF body.wf THEN body.doc ELSE Undefined) ELSE body

\* all four required fields are present and truthy
HasRequiredFields(v) ==
    /\ v.t = "object"
    /\ \A k \in {"promptText", "image", "model"} : k \in DOMAIN v.f
    /\ Truthy(v.f.promptText)
    /\ Truthy(v.f.model)
    /\ v.f.image.t = "object"
    /\ \A k \in {"data", "mimeType"} :
          k \in DOMAIN v.f.image.f /\ Truthy(v.f.image.f[k])

C2_MissingFieldsRejected ==
    (apiKey # "" /\ req.method = "POST" /\ ~HasRequiredFields(Denoted(req.body)))
        => /\ Calls = 0
           /\ Answered => responses = <<ErrorResponse(400, MsgMissing)>>

(***************************************************************************)
(* C3.  When attempts 0..3 are answered 429 or 5xx and attempt 4 is        *)
(* answered 200 with usable inline data, the handler answers 200 with that *)
(* data after exactly 5 fetches; every fetch after the first is issued     *)
(* from a backoff wait, and each backoff delay is strictly longer than the *)
(* one before it.                                                          *)
(***************************************************************************)
FourRetriesThenSuccess ==
    /\ Len(outcomes) = 5
    /\ \A i \in 1..4 : IsRetriableStatus(outcomes[i])
    /\ outcomes[5] = [kind |-> "response", status |-> 200]
    /\ response.body.t = "text"
    /\ response.body.wf
    /\ FirstInlineUsable(response.body.doc)

C3_SuccessAnswer ==
    (Answered /\ FourRetriesThenSuccess) =>
        /\ responses =
              <<[status |-> 200,
                 json |-> [base64Data |->
                    DataOf(response.body.doc, Least(InlineAt(response.body.doc)))]]>>
        /\ Calls = 5
        /\ waits = 4

C3_WaitBeforeRetry ==
    Len(fetchCalls') > Len(fetchCalls) /\ Len(fetchCalls) >= 1
        => pc = "wait" /\ waits = Len(fetchCalls)

C3_DelaysIncrease == waits' > waits /\ waits >= 1 => delay' > delay

C3_RetryThenSuccess ==
    /\ []C3_SuccessAnswer
    /\ [][C3_WaitBeforeRetry /\ C3_DelaysIncrease]_vars

C3_Witness ==
    /\ Answered
    /\ FourRetriesThenSuccess
    /\ responses[1].status = 200
    /\ waits = 4

(***************************************************************************)
(* C4.  When all 5 attempts end in a retriable status or a transport       *)
(* failure, the invocation ends right after the fifth: 5 fetches, 4        *)
(* backoff waits (none after the last attempt), and the handler answers    *)
(* 500 with the error of the last attempt.  There is never a sixth fetch.  *)
(***************************************************************************)
AllTransient ==
    /\ Len(outcomes) = 5
    /\ \A i \in 1..5 : IsTransient(outcomes[i])

C4_ExhaustedAfterFive ==
    /\ Calls <= 5
    /\ AllTransient =>
          /\ Answered
          /\ Calls = 5
          /\ waits = 4
          /\ responses = <<CatchResponse(TransientMessage(outcomes[5]))>>
          /\ responses[1].status = 500

C4_Witness ==
    /\ AllTransient
    /\ Answered
    /\ outcomes[4] = [kind |-> "response", status |-> 429]
    /\ outcomes[5] = [kind |-> "response", status |-> 500]

(***************************************************************************)
(* C5.  The backoff delay waited immediately before attempt n, for         *)
(* 1 <= n <= maxRetries - 1, lies in [2^(n-1)*1000, 2^(n-1)*1000 + 1000)   *)
(* milliseconds, and no delay is waited before attempt 0.                  *)
(***************************************************************************)
C5_DelayInterval ==
    /\ (attempt = 0 /\ pc \in {"start", "fetch"}) => waits = 0 /\ delay = 0
    /\ (attempt >= 1 /\ pc = "fetch") =>
          /\ attempt <= maxRetries - 1
          /\ waits = attempt
          /\ delay >= 2^(attempt - 1) * 1000
          /\ delay < 2^(attempt - 1) * 1000 + 1000
    /\ pc = "wait" =>
          /\ delay >= 2^attempt * 1000
          /\ delay < 2^attempt * 1000 + 1000

C5_Witness == pc = "fetch" /\ attempt = 4 /\ delay = 8999

(***************************************************************************)
(* C6.  A 2xx response whose decoded body has no part with inline data in  *)
(* its first candidate (no candidates, no parts, empty inline data, a null *)
(* body) is answered 500 with the content-policy message when the first    *)
(* safety rating of the first candidate is "HIGH" and with the generic     *)
(* message otherwise, and details is the decoded body.  Stated here for    *)
(* bodies whose parts are all objects.  The code fails it for a null body: *)
(* line 127 reads result.candidates without the guard line 119 has.        *)
(***************************************************************************)
C6_NoInlineDataAnswer ==
    (/\ Answered
     /\ DecodedSuccess
     /\ DataAt(response.body.doc) = {}
     /\ \A i \in 1..Len(DocParts(response.body.doc)) :
           DocParts(response.body.doc)[i] # Null)
        => responses =
              <<[status |-> 500,
                 json |-> [error |-> IF RatedHigh(response.body.doc)
                                     THEN MsgBlocked ELSE MsgGeneric,
                           details |-> response.body.doc]]>>

(***************************************************************************)
(* C7.  With the credential configured, a request whose method is not POST *)
(* is answered 405 whatever its body; the body is never read or parsed and *)
(* no upstream call is made.                                               *)
(***************************************************************************)
C7_NonPostRejected ==
    (apiKey # "" /\ req.method # "POST") =>
        /\ pc \in {"start", "done"}
        /\ requestBody = Unset
        /\ Calls = 0
        /\ Answered => responses = <<ErrorResponse(405, MsgPostOnly)>>

C7_Witness ==
    /\ Answered
    /\ apiKey # ""
    /\ req.method = "GET"
    /\ HasRequiredFields(Denoted(req.body))

(***************************************************************************)
(* C8.  With the credential missing, every request is answered 500 with    *)
(* the misconfiguration message, whatever its method and body, the body is *)
(* never read and no upstream call is made; with the credential present, a *)
(* wrong method is answered 405 before the body is looked at.              *)
(***************************************************************************)
C8_MissingKeyFirst ==
    /\ apiKey = "" =>
          /\ pc \in {"start", "done"}
          /\ requestBody = Unset
          /\ Calls = 0
          /\ Answered => responses = <<ErrorResponse(500, MsgNoKey)>>
    /\ (apiKey # "" /\ req.method # "POST" /\ Answered) =>
          responses[1].status = 405 /\ requestBody = Unset

C8_Witness ==
    /\ Answered
    /\ apiKey = ""
    /\ req.method = "GET"
    /\ req.body = Null

(***************************************************************************)
(* C9.  A 2xx response at attempt i ends fetchWithRetry at once: i+1       *)
(* fetches, no further wait.  As claimed: if the first candidate of the    *)
(* decoded body has a part with non-empty inline data, the answer is 200   *)
(* with the data of the first such part.                                   *)
(***************************************************************************)
SuccessReturnsAtOnce ==
    \A i \in 1..Len(outcomes) :
        IsSuccess(outcomes[i]) =>
            /\ i = Len(outcomes)
            /\ Calls = i
            /\ waits = i - 1
            /\ pc \in {"json", "done"}

C10_AnswerCount ==
    /\ Len(responses) <= 1
    /\ Answered <=> Len(responses) = 1
    /\ (Answered /\ outcomes # <<>> /\ IsTransient(outcomes[Len(outcomes)]))
          => Len(outcomes) = maxRetries

C10_NothingAfterAnswer ==
    /\ ~Answered
    /\ responses' # responses => Answered'

C10_ExactlyOneAnswer ==
    /\ []C10_AnswerCount
    /\ [][C10_NothingAfterAnswer]_vars

C10_Witness ==
    /\ Answered
    /\ Len(responses) = 1
    /\ Len(outcomes) = 5
    /\ \E i \in 1..4 : outcomes[i].kind = "reject"

(***************************************************************************)
(* C11.  Every path that is not a success ends in one structured answer    *)
(* with a 4xx/5xx status and an error string: 500 for a missing            *)
(* credential, 405 for a wrong method, 400 for missing fields, 500 for     *)
(* everything that fails after validation (fatal status, exhaustion,       *)
(* undecodable or unusable upstream body, any exception); status 200 goes  *)
(* out only with a non-empty base64Data and is the only answer without an  *)
(* error field.  No exception leaves the handler: every throw of the model *)
(* lands in one of the two catch blocks.                                   *)
(***************************************************************************)
IsSuccessAnswer(r) ==
    /\ r.status = 200
    /\ DOMAIN r.json = {"base64Data"}
    /\ r.json.base64Data.t = "string"
    /\ r.json.base64Data.s # ""

IsErrorAnswer(r) ==
    /\ r.status \in 400..599
    /\ "error" \in DOMAIN r.json
    /\ r.json.error \in STRING
    /\ r.json.error # ""
    /\ "base64Data" \notin DOMAIN r.json

C11_StructuredAnswers ==
    Answered =>
        /\ Len(responses) = 1
        /\ IsSuccessAnswer(responses[1]) \/ IsErrorAnswer(responses[1])
        /\ responses[1].status \in {200, 400, 405, 500}
        /\ apiKey = "" => responses[1].status = 500
        /\ (apiKey # "" /\ req.method # "POST") => responses[1].status = 405
        /\ responses[1].status = 400 => (requestBody # Unset /\ Calls = 0)
        /\ Calls >= 1 => responses[1].status \in {200, 500}
        /\ responses[1].status = 200 =>
              /\ DecodedSuccess
              /\ responses[1].json.base64Data = ExtractBase64(response.body.doc)

\* an undecodable 2xx body after a retry ends in the structured 500 answer
C11_Witness ==
    /\ Answered
    /\ Len(outcomes) = 2
    /\ IsSuccess(outcomes[2])
    /\ ~response.body.wf
    /\ responses = <<CatchResponse(MsgJsonSyntax)>>

(***************************************************************************)
(* C12.  A transport failure (fetch rejects) is handled exactly like a     *)
(* retriable status (429/5xx).  After n outcomes the last of which is      *)
(* either of the two, the invocation is in the state TransientHandled(n)   *)
(* describes, and that description does not look at which of the two it    *)
(* was: same number of fetches, same timers set with delays from the same  *)
(* interval, same terminal class (the 500 of exhaustion, with the last     *)
(* error).  Exchanging one for the other at any attempt therefore changes  *)
(* nothing but the error text.                                             *)
(***************************************************************************)
TransientHandled(n) ==
    IF n = maxRetries
    THEN /\ pc = "done"
         /\ Calls = n
         /\ waits = n - 1
         /\ responses = <<CatchResponse(TransientMessage(outcomes[n]))>>
    ELSE /\ pc \in {"wait", "fetch"}
         /\ waits = n
         /\ Calls = IF pc = "wait" THEN n ELSE n + 1
         /\ attempt = IF pc = "wait" THEN n - 1 ELSE n
         /\ delay \in (2^(n - 1) * 1000)..(2^(n - 1) * 1000 + 999)
         /\ responses = <<>>

C12_TransportLikeRetriable ==
    /\ outcomes # <<>> =>
          /\ outcomes[Len(outcomes)].kind = "reject"
                => TransientHandled(Len(outcomes))
          /\ IsRetriableStatus(outcomes[Len(outcomes)])
                => TransientHandled(Len(outcomes))
    /\ \A i \in 1..(Len(outcomes) - 1) :
          IsTransient(outcomes[i]) => waits >= i /\ Calls >= i + 1

C12_Witness ==
    /\ pc = "wait"
    /\ Len(outcomes) = 3
    /\ outcomes[1].kind = "reject"
    /\ outcomes[2] = [kind |-> "response", status |-> 429]
    /\ outcomes[3].kind = "reject"

(***************************************************************************)
(* C13.  Retries are strictly sequential.  At most one call of fetch is    *)
(* unsettled at any time; a new call is made only when every earlier call  *)
(* has settled and, for a retry, from the end of the backoff wait that     *)
(* followed the previous failure; and the call made with loop index k is   *)
(* the (k+1)-th call, so indices go 0, 1, 2, ... with none skipped or      *)
(* repeated.                                                               *)
(***************************************************************************)
InFlight == Calls - Len(outcomes)

C13_OneInFlight ==
    /\ InFlight \in {0, 1}
    /\ InFlight = 1 <=> pc = "fetch"
    /\ pc = "fetch" => attempt = Calls - 1
    /\ pc \in {"text", "wait", "json"} => attempt = Calls - 1

C13_CallAfterWait ==
    fetchCalls' # fetchCalls =>
        /\ Len(fetchCalls') = Calls + 1
        /\ Len(outcomes) = Calls
        /\ attempt' = Calls
        /\ \/ pc = "start" /\ Calls = 0 /\ waits = 0
           \/ pc = "wait" /\ Calls >= 1 /\ waits = Calls /\ attempt' = attempt + 1

C13_Sequential ==
    /\ []C13_OneInFlight
    /\ [][C13_CallAfterWait]_vars

C13_Witness ==
    /\ pc = "fetch"
    /\ attempt = 3
    /\ Calls = 4
    /\ Len(outcomes) = 3
    /\ waits = 3

(***************************************************************************)
(* C14.  For every maxRetries >= 1 and every sequence of upstream          *)
(* outcomes, an invocation of fetchWithRetry calls fetch at least once and *)
(* never more than maxRetries times.                                       *)
(***************************************************************************)
\* fetchWithRetry has been called (line 110)
Invoked == options # Unset

C14_CallsWithinCap ==
    /\ Calls <= maxRetries
    /\ Invoked => Calls >= 1
    /\ (Invoked /\ Answered) => Calls \in 1..maxRetries

C14_Witness ==
    /\ Answered
    /\ maxRetries = 3
    /\ Calls = 3
    /\ \A i \in 1..3 : ~IsSuccess(outcomes[i])

(***************************************************************************)
(* C15.  If every upstream call eventually settles and every timer fires,  *)
(* the invocation eventually answers, and on the way it follows only the   *)
(* transitions START -> ATTEMPT(i) -> SUCCESS | FATAL_ABORT | RETRIABLE,   *)
(* RETRIABLE -> WAIT -> ATTEMPT(i+1) when i < max-1 and EXHAUSTED          *)
(* otherwise.  In the code a fatal status at i < max-1 is followed by      *)
(* WAIT -> ATTEMPT(i+1) instead of ending the invocation (see C1).         *)
(***************************************************************************)
C15_ClaimedTransition ==
    LET last == outcomes'[Len(outcomes')]
    IN  \/ pc = "start" /\ pc' \in {"fetch", "done"}
        \/ pc = "fetch" /\ IsSuccess(last) /\ pc' = "json"
        \/ pc = "fetch" /\ IsFatal(last) /\ pc' = "text"
        \/ pc = "text" /\ pc' = "done"
        \/ /\ pc = "fetch"
           /\ IsTransient(last)
           /\ pc' = IF attempt < maxRetries - 1 THEN "wait" ELSE "done"
        \/ pc = "wait" /\ pc' = "fetch" /\ attempt' = attempt + 1
        \/ pc = "json" /\ pc' = "done"

C15_Terminates == <>Answered

C15_TerminatesByMachine ==
    /\ C15_Terminates
    /\ [][C15_ClaimedTransition]_vars

(***************************************************************************)
(* C16.  The provider URL and payload are built once, from the validated   *)
(* request and the credential, and do not change afterwards: every call of *)
(* fetch of the invocation gets the same URL, the method POST and the same *)
(* body, whatever happened to the earlier calls.                           *)
(***************************************************************************)
\* the URL of section 6: <base>/<model>:generateContent?key=<credential>
ExpectedUrl(v) ==
    <<"https://generativelanguage.googleapis.com/v1beta/models", "/",
      v.f.model, ":generateContent?key=", apiKey>>

\* the outbound body of section 6 for the inbound document v
ExpectedPayload(v) ==
    Obj([contents |->
            Arr(<<Obj([role |-> Str("user"),
                       parts |-> Arr(<<Obj([text |-> v.f.promptText]),
                                       Obj([inlineData |->
                                            Obj([mimeType |-> v.f.image.f.mimeType,
                                                 data |-> v.f.image.f.data])])>>)])>>),
         generationConfig |->
            Obj([responseModalities |-> Arr(<<Str("TEXT"), Str("IMAGE")>>)])])

C16_SameCall ==
    \A i \in 1..Calls :
        /\ fetchCalls[i] = fetchCalls[1]
        /\ fetchCalls[i].url = apiUrl
        /\ fetchCalls[i].options = options
        /\ fetchCalls[i].url = ExpectedUrl(Denoted(req.body))
        /\ fetchCalls[i].options.method = "POST"
        /\ fetchCalls[i].options.body.wf
        /\ fetchCalls[i].options.body.doc = ExpectedPayload(Denoted(req.body))

C16_BuiltOnce ==
    /\ pc # "start" => apiUrl' = apiUrl /\ options' = options
    /\ SubSeq(fetchCalls', 1, Calls) = fetchCalls

C16_PayloadFixed ==
    /\ []C16_SameCall
    /\ [][C16_BuiltOnce]_vars

C16_Witness ==
    /\ Calls = 5
    /\ outcomes = <<[kind |-> "reject", status |-> 0],
                    [kind |-> "response", status |-> 400],
                    [kind |-> "response", status |-> 429],
                    [kind |-> "response", status |-> 500]>>
    /\ req.body.t = "text"

\* the locals of the second invocation, laid out as the followed one's
PeerLocals ==
    <<peer.req, peer.maxRetries, peer.pc, peer.requestBody, peer.apiUrl,
      peer.options, peer.attempt, peer.response, peer.fetchCalls,
      peer.outcomes, peer.waits, peer.delay, peer.responses>>

OwnLocals ==
    <<req, maxRetries, pc, requestBody, apiUrl, options, attempt, response,
      fetchCalls, outcomes, waits, delay, responses>>

\* the two invocations were given the same request and, so far, the same
\* upstream outcomes (statuses, bodies read, jitter), and stand at the same
\* await
SameInputs ==
    /\ peer.req = req
    /\ peer.outcomes = outcomes
    /\ peer.response = response
    /\ peer.pc = pc
    /\ CatchResponse(MsgBodyStream) \notin
          {responses[i] : i \in 1..Len(responses)}
             \cup {peer.responses[i] : i \in 1..Len(peer.responses)}

\* whatever the interleaving, equal inputs give equal attempt counters,
\* delays, payloads and answers
C17_OwnInputsOnly == SameInputs => PeerLocals = OwnLocals

\* a step that changes the followed invocation's state is a step of the
\* handler run alone; it leaves the other invocation's state as it was
C17_StepOfLoneRun == Next

\* the credential is read by both invocations and written by none
C17_KeyReadOnly == apiKey' = apiKey

\* C17: interleaved invocations share no mutable state.  Every change of
\* the followed invocation's variables is a step of the handler run alone
\* (so its projection is a behaviour of the single-invocation machine, and
\* no step of the other invocation writes to it), no step of the followed
\* invocation writes to the other's locals, the credential is never
\* written, and two invocations given the same request and the same
\* upstream outcomes hold the same attempt counter, delay, payload and
\* answer in every interleaving.
C17_NoSharedState ==
    /\ []C17_OwnInputsOnly
    /\ [][C17_StepOfLoneRun]_own
    /\ [][C17_KeyReadOnly]_vars

\* both invocations retried, interleaved, and answered differently
C17_Witness ==
    /\ Answered /\ peer.pc = "done"
    /\ waits = 2 /\ peer.waits = 1
    /\ attempt = 2 /\ peer.attempt = 1
    /\ responses[1].status = 200
    /\ peer.responses[1].status = 500
    /\ fetchCalls[1] # peer.fetchCalls[1]

\* the messages of the errors fetchWithRetry throws
ThrownMessages ==
    {MsgFetchFailed, MsgBodyStream}
        \cup {MsgRetriable(st) : st \in Statuses}
        \cup {MsgFailed(st, b.s) : st \in Statuses, b \in ErrBodies}

\* fetchWithRetry has been called and has not yet returned or thrown
InRetryLoop == pc \in {"fetch", "text", "wait"}

\* while the handler decodes a body, it is the body of a 2xx response, the
\* one the last call of fetch resolved with
C18_DecodesOnly2xx ==
    pc = "json" =>
        /\ response.status \in 200..299
        /\ outcomes # <<>>
        /\ IsSuccess(outcomes[Len(outcomes)])
        /\ outcomes[Len(outcomes)].status = response.status

\* the loop variable stays below maxRetries, and a backoff wait is always
\* followed by another attempt: the loop is never left by its test
C18_NeverFallsOut ==
    /\ attempt < maxRetries
    /\ pc = "wait" => attempt + 1 < maxRetries
    /\ InRetryLoop => Calls = attempt + 1

\* fetchWithRetry is left either by returning the 2xx response of the call
\* just settled, or by throwing on the last attempt; the error thrown is
\* answered by the handler's catch block
C18_ReturnsOkOrThrows ==
    InRetryLoop /\ ~InRetryLoop' =>
        \/ /\ pc' = "json"
           /\ pc = "fetch"
           /\ response'.status \in 200..299
           /\ responses' = responses
        \/ /\ pc' = "done"
           /\ pc \in {"fetch", "text"}
           /\ attempt = maxRetries - 1
           /\ ~IsSuccess(outcomes'[Len(outcomes')])
           /\ \E m \in ThrownMessages : responses' = <<CatchResponse(m)>>

\* C18: for every maxRetries >= 1, fetchWithRetry either returns a response
\* with a 2xx status or throws; it never returns another response and never
\* falls out of the loop returning undefined, so the handler only decodes
\* the body of a 2xx response.
C18_OkOrThrow ==
    /\ []C18_DecodesOnly2xx
    /\ []C18_NeverFallsOut
    /\ [][C18_ReturnsOkOrThrows]_vars

\* with a cap of three, two failures were retried and the third attempt's
\* failure was thrown
C18_Witness ==
    /\ maxRetries = 3
    /\ Answered
    /\ Calls = 3
    /\ outcomes[3] = [kind |-> "response", status |-> 500]
    /\ responses = <<CatchResponse(MsgRetriable(500))>>

====
